---- MODULE Spec2Model ----
(***************************************************************************)
(* Model of the POST /curriculo handler (src/main.py, analisar_curriculo), *)
(* the text extractor (processar_arquivo), the two agents of               *)
(* src/src/agente.py and the log sink of src/src/database.py.              *)
(*                                                                         *)
(* Strings are sequences of one-element "characters" so that split, strip, *)
(* lower and the f-string concatenations are computed, not assumed.  A     *)
(* literal of the source that is never inspected character by character    *)
(* (a banner line, a placeholder) is kept as one element.                  *)
(* An optional value (Optional[str], a response not yet produced) is a     *)
(* sequence of length 0 or 1.                                              *)
(***************************************************************************)
EXTENDS Integers, Sequences, FiniteSets, TLC

\* ------------------------------------------------------------------ bounds
\* most files in one upload
MaxFiles == 2

\* ------------------------------------------------------- string primitives
UpperChars == <<"A","B","C","D","E","F","G","H","I","J","K","L","M",
                "N","O","P","Q","R","S","T","U","V","W","X","Y","Z">>

LowerChars == <<"a","b","c","d","e","f","g","h","i","j","k","l","m",
                "n","o","p","q","r","s","t","u","v","w","x","y","z">>

\* str.lower() on one character
LowerChar(c) ==
    IF \E i \in 1..26 : UpperChars[i] = c
    THEN LowerChars[CHOOSE i \in 1..26 : UpperChars[i] = c]
    ELSE c

\* str.lower()
Lower(s) == [i \in 1..Len(s) |-> LowerChar(s[i])]

\* the characters str.strip() removes
Whitespace == {" ", "\t", "\n"}

RECURSIVE LStrip(_, _)
LStrip(s, cs) ==
    IF s # << >> /\ Head(s) \in cs THEN LStrip(Tail(s), cs) ELSE s

RECURSIVE RStrip(_, _)
RStrip(s, cs) ==
    IF s # << >> /\ s[Len(s)] \in cs THEN RStrip(SubSeq(s, 1, Len(s) - 1), cs) ELSE s

\* str.strip(chars)
StripChars(s, cs) == RStrip(LStrip(s, cs), cs)

\* str.strip()
Strip(s) == StripChars(s, Whitespace)

\* "c in s"
Contains(s, c) == \E i \in 1..Len(s) : s[i] = c

\* s.split(c)[-1]: what follows the last occurrence of c (all of s when c is absent)
LastSegment(s, c) ==
    IF Contains(s, c)
    THEN LET k == CHOOSE i \in 1..Len(s) :
                     s[i] = c /\ \A j \in (i + 1)..Len(s) : s[j] # c
         IN  SubSeq(s, k + 1, Len(s))
    ELSE s

StartsWith(s, p) == Len(s) >= Len(p) /\ SubSeq(s, 1, Len(p)) = p

\* s.replace(p, "")
RECURSIVE RemoveAll(_, _)
RemoveAll(s, p) ==
    IF s = << >> THEN << >>
    ELSE IF StartsWith(s, p) THEN RemoveAll(SubSeq(s, Len(p) + 1, Len(s)), p)
    ELSE <<Head(s)>> \o RemoveAll(Tail(s), p)

\* sep.join(parts)
RECURSIVE Join(_, _)
Join(parts, sep) ==
    IF parts = << >> THEN << >>
    ELSE IF Len(parts) = 1 THEN parts[1]
    ELSE parts[1] \o sep \o Join(Tail(parts), sep)

\* ------------------------------------------------------------ file extension
\* get_file_extension
get_file_extension(filename) ==
    IF Contains(filename, ".")
    THEN <<".">> \o Lower(LastSegment(filename, "."))
    ELSE << >>

allowed_extensions ==
    { <<".", "p", "d", "f">>, <<".", "j", "p", "g">>, <<".", "j", "p", "e", "g">>,
      <<".", "p", "n", "g">>, <<".", "d", "o", "c">>, <<".", "d", "o", "c", "x">> }

ImageExtensions ==
    { <<".", "j", "p", "g">>, <<".", "j", "p", "e", "g">>, <<".", "p", "n", "g">> }

JpegExtensions == { <<".", "j", "p", "g">>, <<".", "j", "p", "e", "g">> }

WordExtensions == { <<".", "d", "o", "c">>, <<".", "d", "o", "c", "x">> }

PdfExtension == <<".", "p", "d", "f">>

\* --------------------------------------------------------------------- UUID
HexDigits == <<"0","1","2","3","4","5","6","7","8","9","a","b","c","d","e","f">>

HexCharSet == { HexDigits[i] : i \in 1..16 } \cup {"A","B","C","D","E","F"}

\* number of hex digits of a UUID
UuidHexLen == 32

\* UUID(hex): the 32 lower-case hex digits of the value ('%032x' % int), or,
\* when the constructor raises ValueError, nothing.  int(hex, 16) is taken to
\* accept hex digits only.
ParseUUID(s) ==
    LET h1 == RemoveAll(RemoveAll(s, <<"u","r","n",":">>), <<"u","u","i","d",":">>)
        h2 == RemoveAll(StripChars(h1, {"{", "}"}), <<"-">>)
    IN  IF Len(h2) = UuidHexLen /\ \A i \in 1..Len(h2) : h2[i] \in HexCharSet
        THEN <<Lower(h2)>>
        ELSE << >>

\* str(uuid): 8-4-4-4-12
UuidStr(h) ==
    SubSeq(h, 1, 8) \o <<"-">> \o SubSeq(h, 9, 12) \o <<"-">> \o SubSeq(h, 13, 16)
        \o <<"-">> \o SubSeq(h, 17, 20) \o <<"-">> \o SubSeq(h, 21, 32)

\* characters a name may be hashed from, in code order
CodeChars == HexDigits \o SubSeq(LowerChars, 7, 26) \o UpperChars
                 \o <<" ", "-", "{", "}", ":", ".", "?", "_">>

CharCode(c) ==
    IF \E i \in 1..Len(CodeChars) : CodeChars[i] = c
    THEN CHOOSE i \in 1..Len(CodeChars) : CodeChars[i] = c
    ELSE 0

RECURSIVE WeightedSum(_, _)
WeightedSum(name, k) ==
    IF name = << >> THEN 0
    ELSE (k + Len(name)) * CharCode(name[Len(name)])
             + WeightedSum(SubSeq(name, 1, Len(name) - 1), k)

\* uuid5(NAMESPACE_DNS, name): a digest of the name (SHA-1 in the library; here
\* a weighted character sum), with the version and variant digits forced
uuid5(name) ==
    [i \in 1..UuidHexLen |->
        IF i = 13 THEN "5"
        ELSE IF i = 17 THEN HexDigits[9 + ((WeightedSum(name, i) + i) % 4)]
        ELSE HexDigits[1 + ((WeightedSum(name, i) + 7 * i) % 16)]]

\* values uuid4() may draw
Uuid4Draws ==
    { [i \in 1..UuidHexLen |-> IF i = 13 THEN "4" ELSE IF i = 17 THEN "8" ELSE d]
        : d \in {"1", "e"} }

\* ------------------------------------------------------------------- base64
B64Chars == UpperChars \o LowerChars
                \o <<"0","1","2","3","4","5","6","7","8","9","+","/">>

\* base64.b64encode(bytes).decode('utf-8')
RECURSIVE b64encode(_)
b64encode(bs) ==
    IF Len(bs) = 0 THEN << >>
    ELSE IF Len(bs) = 1 THEN
        << B64Chars[1 + (bs[1] \div 4)], B64Chars[1 + (bs[1] % 4) * 16], "=", "=" >>
    ELSE IF Len(bs) = 2 THEN
        << B64Chars[1 + (bs[1] \div 4)],
           B64Chars[1 + (bs[1] % 4) * 16 + (bs[2] \div 16)],
           B64Chars[1 + (bs[2] % 16) * 4], "=" >>
    ELSE
        << B64Chars[1 + (bs[1] \div 4)],
           B64Chars[1 + (bs[1] % 4) * 16 + (bs[2] \div 16)],
           B64Chars[1 + (bs[2] % 16) * 4 + (bs[3] \div 64)],
           B64Chars[1 + (bs[3] % 64)] >> \o b64encode(SubSeq(bs, 4, Len(bs)))

\* ----------------------------------------------------------- text extraction
\* What the OCR / PDF library does with one file: it raises (with a message),
\* or it yields a list of recognised fragments / page texts.
LibOutcomes ==
    { [raises |-> TRUE,  msg |-> <<"EOF marker not found">>, frags |-> << >>],
      [raises |-> FALSE, msg |-> << >>, frags |-> << >>],
      [raises |-> FALSE, msg |-> << >>, frags |-> << <<" ">> >>],
      [raises |-> FALSE, msg |-> << >>, frags |-> << <<"Maria">>, <<"Python">> >>] }

\* extrair_texto_imagem
extrair_texto_imagem(o) ==
    IF o.raises THEN << >>
    ELSE LET texto == Join(o.frags, <<" ">>)
         IN  IF texto = << >> \/ Strip(texto) = << >> THEN << >> ELSE texto

RECURSIVE PagesText(_)
PagesText(pages) ==
    IF pages = << >> THEN << >>
    ELSE Head(pages) \o <<"\n">> \o PagesText(Tail(pages))

\* extrair_texto_pdf
extrair_texto_pdf(o) ==
    IF o.raises THEN <<"[Erro ao processar PDF: ">> \o o.msg \o <<"]">>
    ELSE Strip(PagesText(o.frags))

WordPlaceholder == <<"[Processamento de arquivos Word em desenvolvimento]">>

UnsupportedPlaceholder == <<"[Tipo de arquivo não suportado para extração de texto]">>

\* processar_arquivo; o is what the library called for this file does
processar_arquivo(filename, o) ==
    LET extensao == get_file_extension(filename)
    IN  IF extensao = PdfExtension THEN extrair_texto_pdf(o)
        ELSE IF extensao \in ImageExtensions THEN extrair_texto_imagem(o)
        ELSE IF extensao \in WordExtensions THEN WordPlaceholder
        ELSE UnsupportedPlaceholder

\* ------------------------------------------------------------ text building
\* '=' * 60
BannerLine == <<"============================================================">>

RECURSIVE IntStr(_)
\* str(i) for i >= 0
IntStr(n) ==
    IF n < 10 THEN <<HexDigits[n + 1]>>
    ELSE IntStr(n \div 10) \o <<HexDigits[(n % 10) + 1]>>

SummaryModeSentinel == <<"[Modo: Sumarização Individual]">>

\* lines 461-464: one framed summary section
sumario_formatado(i, filename, sumario_individual) ==
    <<"\n">> \o BannerLine \o <<"\n">>
        \o <<"CURRÍCULO  #">> \o IntStr(i) \o <<": ">> \o filename \o <<" - Sumário\n">>
        \o BannerLine \o <<"\n">>
        \o sumario_individual \o <<"\n">>

\* lines 475-477: the banner that precedes a document in query mode
header(i, filename) ==
    <<"\n">> \o BannerLine \o <<"\n">>
        \o <<"CURRÍCULO #">> \o IntStr(i) \o <<": ">> \o filename \o <<"\n">>
        \o BannerLine \o <<"\n">>

\* content parts of a message
TextPart(t) == [type |-> "text", text |-> t, url |-> << >>]

ImagePart(u) == [type |-> "image_url", text |-> << >>, url |-> u]

\* a message whose content is a plain string, not a list of parts
PlainContent(t) == << [type |-> "str", text |-> t, url |-> << >>] >>

\* ocr_falhou = not texto or texto.strip() == ""
ocr_falhou(texto) == texto = << >> \/ Strip(texto) = << >>

\* lines 440, 482
mime_type(extensao) ==
    IF extensao \in JpegExtensions THEN <<"image/jpeg">> ELSE <<"image/png">>

\* f"data:{mime_type};base64,{image_base64}"
data_url(arq) ==
    <<"data:">> \o mime_type(arq.extensao) \o <<";base64,">> \o b64encode(arq.bytes_originais)

\* summary_content with the image fallback taken for any document without text
summary_content_AnyBlank(arq) ==
    IF ocr_falhou(arq.texto)
    THEN << TextPart(<<"Analise este currículo em formato de imagem e gere o sumário completo seguindo o formato solicitado:">>),
            ImagePart(data_url(arq)) >>
    ELSE PlainContent(arq.texto)

\* lines 435-454: the content sent to the summary agent for one document
summary_content(arq) ==
    IF ocr_falhou(arq.texto) /\ arq.extensao \in ImageExtensions
    THEN << TextPart(<<"Analise este currículo em formato de imagem e gere o sumário completo seguindo o formato solicitado:">>),
            ImagePart(data_url(arq)) >>
    ELSE PlainContent(arq.texto)

\* lines 473-493: the parts one document adds to the query content
query_parts_of(i, f) ==
    << TextPart(header(i, f.filename)) >> \o
    ( IF ocr_falhou(f.texto) /\ f.extensao \in ImageExtensions
      THEN << TextPart(<<"[Imagem do currículo - OCR não disponível, analisando visualmente]">>),
              ImagePart(data_url(f)) >>
      ELSE << TextPart(f.texto \o <<"\n">>) >> )

RECURSIVE query_parts_upto(_, _)
query_parts_upto(arqs, n) ==
    IF n = 0 THEN << >>
    ELSE query_parts_upto(arqs, n - 1) \o query_parts_of(n, arqs[n])

\* lines 470-493: the single content sequence of query mode
content_parts(query, arqs) ==
    << TextPart(<<"PERGUNTA/CONSULTA: ">> \o query \o <<"\n">>) >>
        \o query_parts_upto(arqs, Len(arqs))

\* lines 426-430; query is an optional string
deve_sumarizar(query) ==
    \/ query = << >>
    \/ Strip(query[1]) = << >>
    \/ Lower(Strip(query[1])) = <<"s","t","r","i","n","g">>

\* line 504 (and 538): the query field of the log record and of the response
query_para_log(query) ==
    IF /\ query # << >>
       /\ query[1] # << >>
       /\ Strip(query[1]) # << >>
       /\ Lower(Strip(query[1])) # <<"s","t","r","i","n","g">>
    THEN query[1]
    ELSE SummaryModeSentinel

\* ------------------------------------------------------------------- agents
\* What one ainvoke does: it raises with a message, or returns a dict whose
\* "messages" list ends with the reply, or a dict with no messages.
AgentOutcomes ==
    { [raises |-> TRUE,  msg |-> <<"Connection timeout">>, isDict |-> FALSE, messages |-> << >>, repr |-> << >>],
      [raises |-> FALSE, msg |-> << >>, isDict |-> TRUE,  messages |-> << <<"Oi">>, <<"Resumo">> >>, repr |-> << >>],
      [raises |-> FALSE, msg |-> << >>, isDict |-> TRUE,  messages |-> << >>, repr |-> << >>] }

\* lines 456-459, 499-502: the reply text taken from what the agent returned
reply_text(resultado) ==
    IF resultado.isDict
    THEN IF resultado.messages # << >>
         THEN resultado.messages[Len(resultado.messages)]
         ELSE <<"Sem resposta">>
    ELSE resultado.repr

\* ----------------------------------------------------------------- log sink
\* resultado[:500]
LogResultLimit == 500

Min(a, b) == IF a < b THEN a ELSE b

\* the document log_request inserts (the timestamp is left out)
log_entry(rec) ==
    [rec EXCEPT !.resultado = SubSeq(rec.resultado, 1, Min(Len(rec.resultado), LogResultLimit))]

\* ------------------------------------------------------------- HTTP results
NoBody == << >>

HTTPException(status_code, detail) ==
    [status |-> status_code, detail |-> detail, body |-> NoBody]

\* FileInfo / CurriculoAnaliseResponse: the constraints the response model
\* puts on a returned dict (size > 0, files_processed >= 1)
response_model_ok(body) ==
    /\ body.files_processed >= 1
    /\ \A k \in 1..Len(body.files_info) : body.files_info[k].size > 0

\* what the framework sends for a dict the handler returned
serialize_response(body) ==
    IF response_model_ok(body)
    THEN [status |-> 200, detail |-> << >>, body |-> <<body>>]
    ELSE [status |-> 500, detail |-> <<"Internal Server Error">>, body |-> NoBody]

\* ------------------------------------------------------------------ inputs
\* request slots of the server
Reqs == {"r1", "r2"}

PdfFile(b)  == [filename |-> <<"c","v",".","p","d","f">>, content_type |-> "application/pdf", bytes |-> b]

PngFile(b)  == [filename |-> <<"f",".","P","N","G">>, content_type |-> "image/png", bytes |-> b]

JpegFile(b) == [filename |-> <<"a",".","b",".","j","p","e","g">>, content_type |-> "image/jpeg", bytes |-> b]

DocxFile(b) == [filename |-> <<"r",".","d","o","c","x">>, content_type |-> "application/msword", bytes |-> b]

TxtFile(b)  == [filename |-> <<"n",".","p","d","f",".","t","x","t">>, content_type |-> "text/plain", bytes |-> b]

NoDotFile(b) == [filename |-> <<"p","d","f">>, content_type |-> "application/pdf", bytes |-> b]

\* file bodies: an empty upload and a two-byte one
EmptyBytes == << >>

TwoBytes == <<137, 80>>

SampleFiles ==
    { PdfFile(TwoBytes), PngFile(EmptyBytes), JpegFile(TwoBytes), DocxFile(TwoBytes),
      TxtFile(TwoBytes), NoDotFile(TwoBytes) }

RECURSIVE SeqsUpTo(_, _)
\* the sequences over S of length 0..n
SeqsUpTo(S, n) ==
    IF n = 0 THEN { << >> }
    ELSE LET shorter == SeqsUpTo(S, n - 1)
         IN  shorter \cup { Append(q, x) : q \in { t \in shorter : Len(t) = n - 1 }, x \in S }

\* List[UploadFile] = File(...): at least one file
FileLists == { fs \in SeqsUpTo(SampleFiles, MaxFiles) : fs # << >> }

\* Optional[str] query: absent, blank, the placeholder "string", a real question
SampleQueries ==
    { << >>,
      << <<" ", " ">> >>,
      << <<" ", "S", "T", "r", "i", "n", "g">> >>,
      << <<"W", "h", "o", "?", " ">> >> }

CanonicalId ==
    <<"1","2","3","e","4","5","6","7","-","e","8","9","b","-","4","2","d","3","-",
      "a","4","5","6","-","4","2","6","6","1","4","1","7","4","0","0","0">>

BracedUpperId ==
    <<"{","1","2","3","E","4","5","6","7","-","E","8","9","B","-","4","2","D","3","-",
      "A","4","5","6","-","4","2","6","6","1","4","1","7","4","0","0","0","}">>

\* Optional[str] request_id: absent, UUID strings, strings that are no UUID
SampleRequestIds ==
    { << >>, <<CanonicalId>>, <<BracedUpperId>>,
      << <<"j","o","b","-","4","2">> >>, << <<"j","o","b","_","4","2">> >> }

Inputs(fileLists, queries, ids) ==
    [files : fileLists, query : queries, request_id : ids, user_id : {<<"u1">>}]

\* a slot no request came in on
NoRequest == [files |-> << >>, query |-> << >>, request_id |-> << >>, user_id |-> << >>]

\* ------------------------------------------------------------------- state
VARIABLES
    req,                   \* per slot: the parsed form fields of the request
    pc,                    \* per slot: where the handler is
    request_uuid,          \* per slot: request_uuid, as 32 hex digits (<< >> while unset)
    idx,                   \* per slot: the loop position (file of `for file in files`, i of enumerate)
    arquivos_processados,  \* per slot: the list the handler accumulates
    sumarios,              \* per slot: the framed summaries so far
    resposta_agente,       \* per slot: the result text
    exc,                   \* per slot: str(e) of the caught exception (<< >> while none)
    reads,                 \* per slot: indexes of the files whose body was read
    extractions,           \* per slot: filenames processar_arquivo was called with
    agentCalls,            \* per slot: the ainvoke calls made, in order
    agentResults,          \* per slot: what each completed ainvoke did
    logCalls,              \* per slot: the records handed to log_request
    logResults,            \* per slot: for each completed log_request, whether the insert worked
    response,              \* per slot: the HTTP response (<< >> while none)
    collection             \* the documents of the log collection

vars == << req, pc, request_uuid, idx, arquivos_processados, sumarios, resposta_agente,
           exc, reads, extractions, agentCalls, agentResults, logCalls, logResults,
           response, collection >>

InitWith(requests) ==
    /\ req \in requests
    /\ pc = [r \in Reqs |-> IF req[r] = NoRequest THEN "absent" ELSE "start"]
    /\ request_uuid = [r \in Reqs |-> << >>]
    /\ idx = [r \in Reqs |-> 1]
    /\ arquivos_processados = [r \in Reqs |-> << >>]
    /\ sumarios = [r \in Reqs |-> << >>]
    /\ resposta_agente = [r \in Reqs |-> << >>]
    /\ exc = [r \in Reqs |-> << >>]
    /\ reads = [r \in Reqs |-> << >>]
    /\ extractions = [r \in Reqs |-> << >>]
    /\ agentCalls = [r \in Reqs |-> << >>]
    /\ agentResults = [r \in Reqs |-> << >>]
    /\ logCalls = [r \in Reqs |-> << >>]
    /\ logResults = [r \in Reqs |-> << >>]
    /\ response = [r \in Reqs |-> << >>]
    /\ collection = << >>

\* one request in flight, over the whole range of uploads and queries
Init ==
    InitWith({ [r \in Reqs |-> IF r = "r1" THEN x ELSE NoRequest] :
                 x \in Inputs(FileLists, SampleQueries, {<<BracedUpperId>>}) })

\* ---------------------------------------------------------------- handler
\* The server runs the handlers on one event loop: a handler runs from one await
\* to the next without giving way, so while some handler is inside the
\* synchronous processar_arquivo no handler can be resumed.
LoopFree == \A q \in Reqs : pc[q] # "extracting"

\* Start with a random UUID drawn for a request_id that is no UUID
Start_RandomFallback(r) ==
    /\ pc[r] = "start"
    /\ LoopFree
    /\ \E drawn \in Uuid4Draws :
         request_uuid' = [request_uuid EXCEPT ![r] =
             IF req[r].request_id = << >> THEN drawn
             ELSE IF ParseUUID(req[r].request_id[1]) # << >>
                  THEN ParseUUID(req[r].request_id[1])[1]
                  ELSE drawn]
    /\ pc' = [pc EXCEPT ![r] = "loop"]
    /\ UNCHANGED << req, idx, arquivos_processados, sumarios, resposta_agente, exc, reads,
                    extractions, agentCalls, agentResults, logCalls, logResults, response,
                    collection >>

\* lines 393-402: resolve the request id
Start(r) ==
    /\ pc[r] = "start"
    /\ LoopFree
    /\ \E drawn \in Uuid4Draws :
         request_uuid' = [request_uuid EXCEPT ![r] =
             IF req[r].request_id = << >> THEN drawn
             ELSE IF ParseUUID(req[r].request_id[1]) # << >>
                  THEN ParseUUID(req[r].request_id[1])[1]
                  ELSE uuid5(req[r].request_id[1])]
    /\ pc' = [pc EXCEPT ![r] = "loop"]
    /\ UNCHANGED << req, idx, arquivos_processados, sumarios, resposta_agente, exc, reads,
                    extractions, agentCalls, agentResults, logCalls, logResults, response,
                    collection >>

\* ValidateFile as it would be without `except HTTPException: raise`: the
\* rejection falls into the generic handler
ValidateFile_Rewrapped(r) ==
    /\ pc[r] = "loop"
    /\ LoopFree
    /\ idx[r] <= Len(req[r].files)
    /\ LET file == req[r].files[idx[r]]
           file_extension == get_file_extension(file.filename)
       IN  IF file_extension \notin allowed_extensions
           THEN /\ exc' = [exc EXCEPT ![r] = <<"400: Arquivo ">> \o file.filename
                             \o <<" tem extensão não permitida. Permitidos: PDF, JPG, PNG, DOCX">>]
                /\ pc' = [pc EXCEPT ![r] = "except"]
           ELSE /\ pc' = [pc EXCEPT ![r] = "reading"]
                /\ UNCHANGED exc
    /\ UNCHANGED << req, request_uuid, idx, arquivos_processados, sumarios, resposta_agente,
                    response, reads, extractions, agentCalls, agentResults, logCalls,
                    logResults, collection >>

\* lines 404-413 and 534-535: the extension check of the next file; a bad one
\* raises the 400, which `except HTTPException: raise` passes on
ValidateFile(r) ==
    /\ pc[r] = "loop"
    /\ LoopFree
    /\ idx[r] <= Len(req[r].files)
    /\ LET file == req[r].files[idx[r]]
           file_extension == get_file_extension(file.filename)
       IN  IF file_extension \notin allowed_extensions
           THEN /\ response' = [response EXCEPT ![r] =
                      << HTTPException(400, <<"Arquivo ">> \o file.filename
                             \o <<" tem extensão não permitida. Permitidos: PDF, JPG, PNG, DOCX">>) >>]
                /\ pc' = [pc EXCEPT ![r] = "done"]
           ELSE /\ pc' = [pc EXCEPT ![r] = "reading"]
                /\ UNCHANGED response
    /\ UNCHANGED << req, request_uuid, idx, arquivos_processados, sumarios, resposta_agente,
                    exc, reads, extractions, agentCalls, agentResults, logCalls, logResults,
                    collection >>

\* line 413: file.read() completes and, with no await in between, the handler
\* enters processar_arquivo (line 415) on the event-loop thread
ReadReturn(r) ==
    /\ pc[r] = "reading"
    /\ LoopFree
    /\ reads' = [reads EXCEPT ![r] = Append(@, idx[r])]
    /\ extractions' = [extractions EXCEPT ![r] = Append(@, req[r].files[idx[r]].filename)]
    /\ pc' = [pc EXCEPT ![r] = "extracting"]
    /\ UNCHANGED << req, request_uuid, idx, arquivos_processados, sumarios, resposta_agente,
                    exc, agentCalls, agentResults, logCalls, logResults, response,
                    collection >>

\* ExtractReturn with a failure of the PDF / OCR library left uncaught: it
\* falls into the generic handler
ExtractReturn_Raises(r) ==
    /\ pc[r] = "extracting"
    /\ LET file == req[r].files[idx[r]]
           conteudo == file.bytes
       IN  \E o \in LibOutcomes :
             IF o.raises /\ get_file_extension(file.filename) \notin WordExtensions
             THEN /\ exc' = [exc EXCEPT ![r] = o.msg]
                  /\ pc' = [pc EXCEPT ![r] = "except"]
                  /\ UNCHANGED << arquivos_processados, idx >>
             ELSE /\ arquivos_processados' = [arquivos_processados EXCEPT ![r] = Append(@,
                         [filename        |-> file.filename,
                          content_type    |-> file.content_type,
                          size            |-> Len(conteudo),
                          texto           |-> processar_arquivo(file.filename, o),
                          bytes_originais |-> conteudo,
                          extensao        |-> get_file_extension(file.filename)])]
                  /\ idx' = [idx EXCEPT ![r] = @ + 1]
                  /\ pc' = [pc EXCEPT ![r] = "loop"]
                  /\ UNCHANGED exc
    /\ UNCHANGED << req, request_uuid, sumarios, resposta_agente, reads, extractions,
                    agentCalls, agentResults, logCalls, logResults, response, collection >>

\* lines 415-424: processar_arquivo returns and the file is appended; the call
\* is synchronous, so the handler held the event loop since ReadReturn
ExtractReturn(r) ==
    /\ pc[r] = "extracting"
    /\ LET file == req[r].files[idx[r]]
           conteudo == file.bytes
       IN  \E o \in LibOutcomes :
             arquivos_processados' = [arquivos_processados EXCEPT ![r] = Append(@,
                    [filename        |-> file.filename,
                     content_type    |-> file.content_type,
                     size            |-> Len(conteudo),
                     texto           |-> processar_arquivo(file.filename, o),
                     bytes_originais |-> conteudo,
                     extensao        |-> get_file_extension(file.filename)])]
    /\ idx' = [idx EXCEPT ![r] = @ + 1]
    /\ pc' = [pc EXCEPT ![r] = "loop"]
    /\ UNCHANGED << req, request_uuid, sumarios, resposta_agente, exc, reads, extractions,
                    agentCalls, agentResults, logCalls, logResults, response, collection >>

\* lines 426-432 and 469-497: after the last file the mode is chosen; query mode
\* builds its single content sequence and calls the query agent
DecideMode(r) ==
    /\ pc[r] = "loop"
    /\ LoopFree
    /\ idx[r] > Len(req[r].files)
    /\ IF deve_sumarizar(req[r].query)
       THEN /\ pc' = [pc EXCEPT ![r] = "sumarizar"]
            /\ UNCHANGED agentCalls
       ELSE /\ agentCalls' = [agentCalls EXCEPT ![r] = Append(@,
                   [agent |-> "curriculo",
                    content |-> content_parts(req[r].query[1], arquivos_processados[r])])]
            /\ pc' = [pc EXCEPT ![r] = "await_curriculo"]
    /\ idx' = [idx EXCEPT ![r] = 1]
    /\ UNCHANGED << req, request_uuid, arquivos_processados, sumarios, resposta_agente, exc,
                    reads, extractions, agentResults, logCalls, logResults, response,
                    collection >>

\* lines 434-454: summary mode calls the summary agent for document idx
SummaryInvoke(r) ==
    /\ pc[r] = "sumarizar"
    /\ LoopFree
    /\ idx[r] <= Len(arquivos_processados[r])
    /\ agentCalls' = [agentCalls EXCEPT ![r] = Append(@,
           [agent |-> "curriculo_sumario",
            content |-> summary_content(arquivos_processados[r][idx[r]])])]
    /\ pc' = [pc EXCEPT ![r] = "await_sumario"]
    /\ UNCHANGED << req, request_uuid, idx, arquivos_processados, sumarios, resposta_agente,
                    exc, reads, extractions, agentResults, logCalls, logResults, response,
                    collection >>

\* SummaryReturn that asks the agent again for the same document after a failure
SummaryReturn_Retry(r) ==
    /\ pc[r] = "await_sumario"
    /\ LoopFree
    /\ \E resultado \in AgentOutcomes :
         /\ agentResults' = [agentResults EXCEPT ![r] = Append(@, resultado)]
         /\ IF resultado.raises
            THEN /\ IF Len(agentResults[r]) < Len(arquivos_processados[r])
                    THEN /\ pc' = [pc EXCEPT ![r] = "sumarizar"]
                         /\ UNCHANGED exc
                    ELSE /\ exc' = [exc EXCEPT ![r] = resultado.msg]
                         /\ pc' = [pc EXCEPT ![r] = "except"]
                 /\ UNCHANGED << sumarios, idx >>
            ELSE /\ sumarios' = [sumarios EXCEPT ![r] = Append(@,
                        sumario_formatado(idx[r], arquivos_processados[r][idx[r]].filename,
                                          reply_text(resultado)))]
                 /\ idx' = [idx EXCEPT ![r] = @ + 1]
                 /\ pc' = [pc EXCEPT ![r] = "sumarizar"]
                 /\ UNCHANGED exc
    /\ UNCHANGED << req, request_uuid, arquivos_processados, resposta_agente, reads,
                    extractions, agentCalls, logCalls, logResults, response, collection >>

\* lines 456-465 (536 when the call raises): the summary agent's call ends
SummaryReturn(r) ==
    /\ pc[r] = "await_sumario"
    /\ LoopFree
    /\ \E resultado \in AgentOutcomes :
         /\ agentResults' = [agentResults EXCEPT ![r] = Append(@, resultado)]
         /\ IF resultado.raises
            THEN /\ exc' = [exc EXCEPT ![r] = resultado.msg]
                 /\ pc' = [pc EXCEPT ![r] = "except"]
                 /\ UNCHANGED << sumarios, idx >>
            ELSE /\ sumarios' = [sumarios EXCEPT ![r] = Append(@,
                        sumario_formatado(idx[r], arquivos_processados[r][idx[r]].filename,
                                          reply_text(resultado)))]
                 /\ idx' = [idx EXCEPT ![r] = @ + 1]
                 /\ pc' = [pc EXCEPT ![r] = "sumarizar"]
                 /\ UNCHANGED exc
    /\ UNCHANGED << req, request_uuid, arquivos_processados, resposta_agente, reads,
                    extractions, agentCalls, logCalls, logResults, response, collection >>

\* line 467: the framed summaries are joined
SummaryJoin(r) ==
    /\ pc[r] = "sumarizar"
    /\ LoopFree
    /\ idx[r] > Len(arquivos_processados[r])
    /\ resposta_agente' = [resposta_agente EXCEPT ![r] = Join(sumarios[r], <<"\n">>)]
    /\ pc' = [pc EXCEPT ![r] = "log"]
    /\ UNCHANGED << req, request_uuid, idx, arquivos_processados, sumarios, exc, reads,
                    extractions, agentCalls, agentResults, logCalls, logResults, response,
                    collection >>

\* lines 495-502 (536 when the call raises): the query agent's call ends
QueryReturn(r) ==
    /\ pc[r] = "await_curriculo"
    /\ LoopFree
    /\ \E resultado \in AgentOutcomes :
         /\ agentResults' = [agentResults EXCEPT ![r] = Append(@, resultado)]
         /\ IF resultado.raises
            THEN /\ exc' = [exc EXCEPT ![r] = resultado.msg]
                 /\ pc' = [pc EXCEPT ![r] = "except"]
                 /\ UNCHANGED resposta_agente
            ELSE /\ resposta_agente' = [resposta_agente EXCEPT ![r] = reply_text(resultado)]
                 /\ pc' = [pc EXCEPT ![r] = "log"]
                 /\ UNCHANGED exc
    /\ UNCHANGED << req, request_uuid, idx, arquivos_processados, sumarios, reads,
                    extractions, agentCalls, logCalls, logResults, response, collection >>

\* LogSuccessCall that goes on to the return without calling log_request
LogSuccessCall_Skipped(r) ==
    /\ pc[r] = "log"
    /\ LoopFree
    /\ logCalls' = logCalls
    /\ pc' = [pc EXCEPT ![r] = "await_log"]
    /\ UNCHANGED << req, request_uuid, idx, arquivos_processados, sumarios, resposta_agente,
                    exc, reads, extractions, agentCalls, agentResults, logResults, response,
                    collection >>

\* lines 504-514: the success record is handed to log_request
LogSuccessCall(r) ==
    /\ pc[r] = "log"
    /\ LoopFree
    /\ logCalls' = [logCalls EXCEPT ![r] = Append(@,
           [request_id  |-> UuidStr(request_uuid[r]),
            user_id     |-> req[r].user_id,
            query       |-> query_para_log(req[r].query),
            resultado   |-> resposta_agente[r],
            files_count |-> Len(arquivos_processados[r]),
            status      |-> "success"])]
    /\ pc' = [pc EXCEPT ![r] = "await_log"]
    /\ UNCHANGED << req, request_uuid, idx, arquivos_processados, sumarios, resposta_agente,
                    exc, reads, extractions, agentCalls, agentResults, logResults, response,
                    collection >>

\* LogSuccessReturn without the try/except around the success log call: a
\* failed insert falls into the generic handler
LogSuccessReturn_Propagates(r) ==
    /\ pc[r] = "await_log"
    /\ LoopFree
    /\ \E inserted \in BOOLEAN :
         /\ logResults' = [logResults EXCEPT ![r] = Append(@, inserted)]
         /\ collection' = IF inserted
                          THEN Append(collection, log_entry(logCalls[r][Len(logCalls[r])]))
                          ELSE collection
         /\ IF inserted
            THEN /\ response' = [response EXCEPT ![r] = << serialize_response(
                        [request_id      |-> UuidStr(request_uuid[r]),
                         user_id         |-> req[r].user_id,
                         files_processed |-> Len(arquivos_processados[r]),
                         files_info      |-> [k \in 1..Len(arquivos_processados[r]) |->
                                                [filename     |-> arquivos_processados[r][k].filename,
                                                 content_type |-> arquivos_processados[r][k].content_type,
                                                 size         |-> arquivos_processados[r][k].size]],
                         query           |-> query_para_log(req[r].query),
                         resultado       |-> resposta_agente[r]]) >>]
                 /\ pc' = [pc EXCEPT ![r] = "done"]
                 /\ UNCHANGED exc
            ELSE /\ exc' = [exc EXCEPT ![r] = <<"insert failed">>]
                 /\ pc' = [pc EXCEPT ![r] = "except"]
                 /\ UNCHANGED response
    /\ UNCHANGED << req, request_uuid, idx, arquivos_processados, sumarios, resposta_agente,
                    reads, extractions, agentCalls, agentResults, logCalls >>

\* LogSuccessReturn with an insert that keeps one document per request id
LogSuccessReturn_Dedup(r) ==
    /\ pc[r] = "await_log"
    /\ LoopFree
    /\ \E inserted \in BOOLEAN :
         /\ logResults' = [logResults EXCEPT ![r] = Append(@, inserted)]
         /\ collection' =
                IF inserted /\ \A k \in 1..Len(collection) :
                                   collection[k].request_id # UuidStr(request_uuid[r])
                THEN Append(collection, log_entry(logCalls[r][Len(logCalls[r])]))
                ELSE collection
    /\ response' = [response EXCEPT ![r] = << serialize_response(
           [request_id      |-> UuidStr(request_uuid[r]),
            user_id         |-> req[r].user_id,
            files_processed |-> Len(arquivos_processados[r]),
            files_info      |-> [k \in 1..Len(arquivos_processados[r]) |->
                                   [filename     |-> arquivos_processados[r][k].filename,
                                    content_type |-> arquivos_processados[r][k].content_type,
                                    size         |-> arquivos_processados[r][k].size]],
            query           |-> query_para_log(req[r].query),
            resultado       |-> resposta_agente[r]]) >>]
    /\ pc' = [pc EXCEPT ![r] = "done"]
    /\ UNCHANGED << req, request_uuid, idx, arquivos_processados, sumarios, resposta_agente,
                    exc, reads, extractions, agentCalls, agentResults, logCalls >>

\* database.py 33-45 and main.py 515-532: log_request ends (the insert works, or
\* it raises and the handler swallows that); the handler returns its dict, which
\* the framework checks against the response model
LogSuccessReturn(r) ==
    /\ pc[r] = "await_log"
    /\ LoopFree
    /\ \E inserted \in BOOLEAN :
         /\ logResults' = [logResults EXCEPT ![r] = Append(@, inserted)]
         /\ collection' = IF inserted
                          THEN Append(collection, log_entry(logCalls[r][Len(logCalls[r])]))
                          ELSE collection
    /\ response' = [response EXCEPT ![r] = << serialize_response(
           [request_id      |-> UuidStr(request_uuid[r]),
            user_id         |-> req[r].user_id,
            files_processed |-> Len(arquivos_processados[r]),
            files_info      |-> [k \in 1..Len(arquivos_processados[r]) |->
                                   [filename     |-> arquivos_processados[r][k].filename,
                                    content_type |-> arquivos_processados[r][k].content_type,
                                    size         |-> arquivos_processados[r][k].size]],
            query           |-> query_para_log(req[r].query),
            resultado       |-> resposta_agente[r]]) >>]
    /\ pc' = [pc EXCEPT ![r] = "done"]
    /\ UNCHANGED << req, request_uuid, idx, arquivos_processados, sumarios, resposta_agente,
                    exc, reads, extractions, agentCalls, agentResults, logCalls >>

\* LogErrorCall that leaves status at log_request's default, "success"
LogErrorCall_DefaultStatus(r) ==
    /\ pc[r] = "except"
    /\ LoopFree
    /\ logCalls' = [logCalls EXCEPT ![r] = Append(@,
           [request_id  |-> UuidStr(request_uuid[r]),
            user_id     |-> req[r].user_id,
            query       |-> query_para_log(req[r].query),
            resultado   |-> <<"Erro: ">> \o exc[r],
            files_count |-> Len(arquivos_processados[r]),
            status      |-> "success"])]
    /\ pc' = [pc EXCEPT ![r] = "await_log_erro"]
    /\ UNCHANGED << req, request_uuid, idx, arquivos_processados, sumarios, resposta_agente,
                    exc, reads, extractions, agentCalls, agentResults, logResults, response,
                    collection >>

\* LogErrorCall with the file count left at its fallback of 0
LogErrorCall_NoCount(r) ==
    /\ pc[r] = "except"
    /\ LoopFree
    /\ logCalls' = [logCalls EXCEPT ![r] = Append(@,
           [request_id  |-> UuidStr(request_uuid[r]),
            user_id     |-> req[r].user_id,
            query       |-> query_para_log(req[r].query),
            resultado   |-> <<"Erro: ">> \o exc[r],
            files_count |-> 0,
            status      |-> "error"])]
    /\ pc' = [pc EXCEPT ![r] = "await_log_erro"]
    /\ UNCHANGED << req, request_uuid, idx, arquivos_processados, sumarios, resposta_agente,
                    exc, reads, extractions, agentCalls, agentResults, logResults, response,
                    collection >>

\* lines 536-547: the error record is handed to log_request
LogErrorCall(r) ==
    /\ pc[r] = "except"
    /\ LoopFree
    /\ logCalls' = [logCalls EXCEPT ![r] = Append(@,
           [request_id  |-> IF request_uuid[r] # << >> THEN UuidStr(request_uuid[r])
                                                       ELSE <<"unknown">>,
            user_id     |-> req[r].user_id,
            query       |-> query_para_log(req[r].query),
            resultado   |-> <<"Erro: ">> \o exc[r],
            files_count |-> Len(arquivos_processados[r]),
            status      |-> "error"])]
    /\ pc' = [pc EXCEPT ![r] = "await_log_erro"]
    /\ UNCHANGED << req, request_uuid, idx, arquivos_processados, sumarios, resposta_agente,
                    exc, reads, extractions, agentCalls, agentResults, logResults, response,
                    collection >>

\* database.py 33-45 and main.py 548-550: log_request ends (a failure is
\* passed over) and the 500 is raised
LogErrorReturn(r) ==
    /\ pc[r] = "await_log_erro"
    /\ LoopFree
    /\ \E inserted \in BOOLEAN :
         /\ logResults' = [logResults EXCEPT ![r] = Append(@, inserted)]
         /\ collection' = IF inserted
                          THEN Append(collection, log_entry(logCalls[r][Len(logCalls[r])]))
                          ELSE collection
    /\ response' = [response EXCEPT ![r] =
           << HTTPException(500, <<"Erro ao processar requisição: ">> \o exc[r]) >>]
    /\ pc' = [pc EXCEPT ![r] = "done"]
    /\ UNCHANGED << req, request_uuid, idx, arquivos_processados, sumarios, resposta_agente,
                    exc, reads, extractions, agentCalls, agentResults, logCalls >>

Next ==
    \/ \E r \in Reqs : Start(r)
    \/ \E r \in Reqs : ValidateFile(r)
    \/ \E r \in Reqs : ReadReturn(r)
    \/ \E r \in Reqs : ExtractReturn(r)
    \/ \E r \in Reqs : DecideMode(r)
    \/ \E r \in Reqs : SummaryInvoke(r)
    \/ \E r \in Reqs : SummaryReturn(r)
    \/ \E r \in Reqs : SummaryJoin(r)
    \/ \E r \in Reqs : QueryReturn(r)
    \/ \E r \in Reqs : LogSuccessCall(r)
    \/ \E r \in Reqs : LogSuccessReturn(r)
    \/ \E r \in Reqs : LogErrorCall(r)
    \/ \E r \in Reqs : LogErrorReturn(r)

\* the steps of the handler of one request
RequestStep(r) ==
    \/ Start(r)
    \/ ValidateFile(r)
    \/ ReadReturn(r)
    \/ ExtractReturn(r)
    \/ DecideMode(r)
    \/ SummaryInvoke(r)
    \/ SummaryReturn(r)
    \/ SummaryJoin(r)
    \/ QueryReturn(r)
    \/ LogSuccessCall(r)
    \/ LogSuccessReturn(r)
    \/ LogErrorCall(r)
    \/ LogErrorReturn(r)

Spec == Init /\ [][Next]_vars

\* two requests in flight at once, over the whole range of request ids
PairFileLists == { << PngFile(TwoBytes) >> }

PairQueries == { << >>, << <<"W", "h", "o", "?", " ">> >> }

InitPair ==
    InitWith([Reqs -> Inputs(PairFileLists, PairQueries, SampleRequestIds)])

SpecPair == InitPair /\ [][Next]_vars

\* =================================================================== claims
\* Vocabulary of the claims, stated without the handler's own helpers.

EndsWith(s, suffix) ==
    Len(s) >= Len(suffix) /\ Lower(SubSeq(s, Len(s) - Len(suffix) + 1, Len(s))) = suffix

\* the filename ends, in any letter case, with .pdf .jpg .jpeg .png .doc or .docx
NameAllowed(filename) ==
    \E suffix \in { <<".","p","d","f">>, <<".","j","p","g">>, <<".","j","p","e","g">>,
                    <<".","p","n","g">>, <<".","d","o","c">>, <<".","d","o","c","x">> } :
        EndsWith(filename, suffix)

NameIsImage(filename) ==
    \E suffix \in { <<".","j","p","g">>, <<".","j","p","e","g">>, <<".","p","n","g">> } :
        EndsWith(filename, suffix)

AllNamesAllowed(files) == \A k \in 1..Len(files) : NameAllowed(files[k].filename)

\* position of the first file whose extension is not allowed
FirstBad(files) ==
    CHOOSE k \in 1..Len(files) :
        /\ ~NameAllowed(files[k].filename)
        /\ \A j \in 1..(k - 1) : NameAllowed(files[j].filename)

Arrived(r) == pc[r] # "absent"

Done(r) == pc[r] = "done"

Status(r) == response[r][1].status

\* every agent call of the request so far has returned (none raised)
AgentsReturned(r) == \A k \in 1..Len(agentResults[r]) : ~agentResults[r][k].raises

CallsTo(r, agent) == { k \in 1..Len(agentCalls[r]) : agentCalls[r][k].agent = agent }

BadExtensionDetail(filename) ==
    <<"Arquivo ">> \o filename
        \o <<" tem extensão não permitida. Permitidos: PDF, JPG, PNG, DOCX">>

\* C1: a request with a file of a disallowed extension never invokes an agent,
\* and the response it ends with is the 400 that names the first such file.
C1_BadExtensionGives400 ==
    \A r \in Reqs :
        (Arrived(r) /\ ~AllNamesAllowed(req[r].files)) =>
            /\ agentCalls[r] = << >>
            /\ response[r] # << >> =>
                   response[r][1] = [status |-> 400,
                                     detail |-> BadExtensionDetail(
                                         req[r].files[FirstBad(req[r].files)].filename),
                                     body |-> << >>]
            /\ Done(r) => response[r] # << >>

\* C1 witness: a request whose second file has no '.' ended with the 400
C1_Witness ==
    \E r \in Reqs :
        /\ Done(r)
        /\ Len(req[r].files) = 2
        /\ NameAllowed(req[r].files[1].filename)
        /\ ~Contains(req[r].files[2].filename, ".")
        /\ Status(r) = 400

\* C2 (as claimed): when a request is rejected with the 400, no file body of
\* it was read and the extractor was called for none of its files.
C2_NoExtractionBeforeReject ==
    \A r \in Reqs :
        (response[r] # << >> /\ Status(r) = 400) =>
            reads[r] = << >> /\ extractions[r] = << >>

\* the query asks for summary mode: absent, blank after trimming, or "string"
\* in any letter case
ClaimSummaryQuery(query) ==
    \/ query = << >>
    \/ \A i \in 1..Len(query[1]) : query[1][i] \in Whitespace
    \/ Lower(Strip(query[1])) = <<"s","t","r","i","n","g">>

Line60 == <<"============================================================">>

Digit(k) == <<"0","1","2","3","4","5","6","7","8","9">>[k + 1]

\* the k-th smallest element of a set of numbers
Kth(P, k) == CHOOSE p \in P : Cardinality({ q \in P : q < p }) = k - 1

HasBody(r) == response[r] # << >> /\ response[r][1].body # << >>

Body(r) == response[r][1].body[1]

\* text holds exactly one framed title per file, numbered from 1, in file order
FramedTitles(text, files, titleAtom, tail) ==
    LET P == { p \in 1..Len(text) : text[p] = titleAtom }
    IN  /\ Cardinality(P) = Len(files)
        /\ \A k \in 1..Len(files) :
             LET p == Kth(P, k)
                 title == <<Digit(k), ": ">> \o files[k].filename \o <<tail>>
             IN  /\ p > 2
                 /\ SubSeq(text, p - 2, p - 1) = Line60 \o <<"\n">>
                 /\ SubSeq(text, p + 1, p + Len(title)) = title
                 /\ SubSeq(text, p + Len(title) + 1, p + Len(title) + 2) = Line60 \o <<"\n">>

\* C3 (as claimed): a finished request in summary mode whose files are all
\* allowed and whose agent calls all returned made one summary-agent call per
\* file and no query-agent call, and its response carries the summary-mode
\* sentinel as query and one framed section per file, numbered in file order.
C3_SummaryModeResponse ==
    \A r \in Reqs :
        ( /\ Done(r)
          /\ AllNamesAllowed(req[r].files)
          /\ ClaimSummaryQuery(req[r].query)
          /\ AgentsReturned(r) ) =>
            /\ Len(agentCalls[r]) = Len(req[r].files)
            /\ CallsTo(r, "curriculo_sumario") = 1..Len(req[r].files)
            /\ HasBody(r)
            /\ Body(r).query = <<"[Modo: Sumarização Individual]">>
            /\ FramedTitles(Body(r).resultado, req[r].files, "CURRÍCULO  #", " - Sumário\n")

\* the texts of the text parts of a content sequence, concatenated
RECURSIVE PartsText(_)
PartsText(parts) ==
    IF parts = << >> THEN << >>
    ELSE (IF Head(parts).type = "text" THEN Head(parts).text ELSE << >>)
             \o PartsText(Tail(parts))

\* the reply an agent call that returned carries
AgentReply(resultado) ==
    IF ~resultado.isDict THEN resultado.repr
    ELSE IF resultado.messages = << >> THEN <<"Sem resposta">>
    ELSE resultado.messages[Len(resultado.messages)]

\* C4 (as claimed): a finished request in query mode whose files are all
\* allowed (and whose agent call returned) made exactly one call, to the query
\* agent, with the question part followed by one banner per file in file order;
\* its response echoes the query unchanged and carries the reply as resultado.
C4_QueryModeResponse ==
    \A r \in Reqs :
        ( /\ Done(r)
          /\ AllNamesAllowed(req[r].files)
          /\ ~ClaimSummaryQuery(req[r].query)
          /\ AgentsReturned(r) ) =>
            /\ Len(agentCalls[r]) = 1
            /\ agentCalls[r][1].agent = "curriculo"
            /\ agentCalls[r][1].content[1].type = "text"
            /\ agentCalls[r][1].content[1].text
                   = <<"PERGUNTA/CONSULTA: ">> \o req[r].query[1] \o <<"\n">>
            /\ FramedTitles(PartsText(agentCalls[r][1].content), req[r].files,
                            "CURRÍCULO #", "\n")
            /\ HasBody(r)
            /\ Body(r).query = req[r].query[1]
            /\ Len(agentResults[r]) = 1
            /\ Body(r).resultado = AgentReply(agentResults[r][1])

\* the text is empty or whitespace only
BlankText(t) == \A i \in 1..Len(t) : t[i] \in Whitespace

\* the base64 text of the sample file bodies
SampleB64(bytes) == IF bytes = << >> THEN << >> ELSE <<"i", "V", "A", "=">>

ClaimImageUrl(arq) ==
    <<"data:">>
        \o (IF EndsWith(arq.filename, <<".","p","n","g">>) THEN <<"image/png">> ELSE <<"image/jpeg">>)
        \o <<";base64,">> \o SampleB64(arq.bytes_originais)

\* the parts of a query-mode content that belong to document k: those after
\* its banner part and before the next banner part
QueryDocParts(content, k) ==
    LET H == { p \in 1..Len(content) :
                 content[p].type = "text" /\ Contains(content[p].text, "CURRÍCULO #") }
        from == Kth(H, k) + 1
        to == IF k < Cardinality(H) THEN Kth(H, k + 1) - 1 ELSE Len(content)
    IN  SubSeq(content, from, to)

\* parts carries the image of arq and not its text, or its text and no image
ImageIffBlankImage(parts, arq, textSent) ==
    LET images == { p \in 1..Len(parts) : parts[p].type = "image_url" }
    IN  IF BlankText(arq.texto) /\ NameIsImage(arq.filename)
        THEN /\ Cardinality(images) = 1
             /\ \A p \in images : parts[p].url = ClaimImageUrl(arq)
        ELSE /\ images = { }
             /\ \E p \in 1..Len(parts) : parts[p].text = textSent

\* C5: in both modes the content sent for a document carries a base64 image
\* part (of the original bytes, with the mime type of its extension) exactly
\* when its extracted text is blank and it is a jpg, jpeg or png; otherwise the
\* extracted text is sent and no image part.
C5_ImageFallbackIffBlankImage ==
    \A r \in Reqs :
        \A c \in 1..Len(agentCalls[r]) :
            IF agentCalls[r][c].agent = "curriculo_sumario"
            THEN ImageIffBlankImage(agentCalls[r][c].content, arquivos_processados[r][c],
                                    arquivos_processados[r][c].texto)
            ELSE \A k \in 1..Len(arquivos_processados[r]) :
                     ImageIffBlankImage(QueryDocParts(agentCalls[r][c].content, k),
                                        arquivos_processados[r][k],
                                        arquivos_processados[r][k].texto \o <<"\n">>)

\* C5 witness: summary mode sent a PNG without text as an image and a PDF
\* without text as text
C5_Witness ==
    \E r \in Reqs :
        /\ Len(agentCalls[r]) = 2
        /\ agentCalls[r][1].agent = "curriculo_sumario"
        /\ NameIsImage(arquivos_processados[r][1].filename)
        /\ arquivos_processados[r][1].texto = << >>
        /\ \E p \in 1..Len(agentCalls[r][1].content) :
               agentCalls[r][1].content[p].type = "image_url"
        /\ EndsWith(arquivos_processados[r][2].filename, <<".","p","d","f">>)
        /\ arquivos_processados[r][2].texto = << >>

\* the agent call of the request that raised, if any
AgentFailed(r) == agentResults[r] # << >> /\ agentResults[r][Len(agentResults[r])].raises

FailureMessage(r) == agentResults[r][Len(agentResults[r])].msg

\* C6: once an agent call of a request has raised with message m, the request
\* ends with the 500 whose detail is "Erro ao processar requisição: m", and the
\* one record handed to the log sink, handed before the response exists, has
\* status "error", result "Erro: m", the resolved request id, the user id and
\* the number of files extracted.
C6_AgentFailureGives500AndErrorLog ==
    \A r \in Reqs :
        AgentFailed(r) =>
            /\ Len(logCalls[r]) <= 1
            /\ response[r] # << >> =>
                 /\ response[r][1] = [status |-> 500,
                                      detail |-> <<"Erro ao processar requisição: ">> \o FailureMessage(r),
                                      body |-> << >>]
                 /\ Len(logCalls[r]) = 1
            /\ Done(r) => response[r] # << >>
            /\ pc[r] = "await_log_erro" => (Len(logCalls[r]) = 1 /\ response[r] = << >>)
            /\ logCalls[r] # << >> =>
                 logCalls[r][1] = [request_id  |-> CanonicalId,
                                   user_id     |-> <<"u1">>,
                                   query       |-> IF ClaimSummaryQuery(req[r].query)
                                                   THEN <<"[Modo: Sumarização Individual]">>
                                                   ELSE req[r].query[1],
                                   resultado   |-> <<"Erro: ">> \o FailureMessage(r),
                                   files_count |-> Len(extractions[r]),
                                   status      |-> "error"]

\* C6 witness: the summary agent raised on the second of two documents and the
\* request ended with the 500
C6_Witness ==
    \E r \in Reqs :
        /\ Done(r)
        /\ Len(agentResults[r]) = 2
        /\ AgentFailed(r)
        /\ Status(r) = 500
        /\ logCalls[r][1].files_count = 2

C8_EveryRequestLogsOnce ==
    \A r \in Reqs : Done(r) => Len(logCalls[r]) = 1

\* C8 (amended): a request hands at most one record to the log sink; one that
\* ended with the 400 handed none, every other finished request handed exactly
\* one, before its response existed.
C8_LogsOnceUnlessRejected ==
    \A r \in Reqs :
        /\ Len(logCalls[r]) <= 1
        /\ response[r] # << >> =>
               Len(logCalls[r]) = (IF Status(r) = 400 THEN 0 ELSE 1)
        /\ pc[r] \in {"await_log", "await_log_erro"} =>
               (Len(logCalls[r]) = 1 /\ response[r] = << >>)
        /\ Done(r) => response[r] # << >>

\* C8 witness: a request ended with the 200 after handing one record whose
\* insert failed
C8_Witness ==
    \E r \in Reqs :
        /\ Done(r)
        /\ Status(r) = 200
        /\ Len(logCalls[r]) = 1
        /\ logResults[r] = <<FALSE>>

\* C9 (as claimed): a finished request whose files are all allowed and whose
\* agent calls all returned got the 200, with files_processed the number of
\* uploaded files and files_info their filename, declared content type and
\* byte length in upload order.
C9_SuccessListsEveryFile ==
    \A r \in Reqs :
        ( /\ Done(r)
          /\ AllNamesAllowed(req[r].files)
          /\ AgentsReturned(r) ) =>
            /\ Status(r) = 200
            /\ HasBody(r)
            /\ Body(r).files_processed = Len(req[r].files)
            /\ Body(r).files_info =
                   [k \in 1..Len(req[r].files) |->
                       [filename     |-> req[r].files[k].filename,
                        content_type |-> req[r].files[k].content_type,
                        size         |-> Len(req[r].files[k].bytes)]]

\* s is a UUID string: 36 characters, '-' at 9, 14, 19 and 24, hex digits elsewhere
IsUuidString(s) ==
    /\ Len(s) = 36
    /\ \A i \in 1..36 :
         IF i \in {9, 14, 19, 24} THEN s[i] = "-"
         ELSE s[i] \in {"0","1","2","3","4","5","6","7","8","9","a","b","c","d","e","f"}

\* C10: a supplied request_id that is a UUID string comes back in canonical
\* form; two requests that supplied the same request_id have the same request
\* id; and every request id in a response or a log record is a UUID string.
C10_RequestIdDeterministicAndValid ==
    /\ \A r \in Reqs :
         /\ (HasBody(r) /\ req[r].request_id \in {<<CanonicalId>>, <<BracedUpperId>>}) =>
                Body(r).request_id = CanonicalId
         /\ HasBody(r) => IsUuidString(Body(r).request_id)
         /\ \A k \in 1..Len(logCalls[r]) : IsUuidString(logCalls[r][k].request_id)
    /\ \A r1, r2 \in Reqs :
         ( /\ req[r1].request_id # << >>
           /\ req[r1].request_id = req[r2].request_id
           /\ HasBody(r1) /\ HasBody(r2) ) =>
             /\ Body(r1).request_id = Body(r2).request_id
             /\ logCalls[r1][1].request_id = logCalls[r2][1].request_id

\* C10 witness: two requests that supplied the same non-UUID string both ended
\* with the 200
C10_Witness ==
    \E r1, r2 \in Reqs :
        /\ r1 # r2
        /\ req[r1].request_id = << <<"j","o","b","-","4","2">> >>
        /\ req[r2].request_id = req[r1].request_id
        /\ HasBody(r1) /\ HasBody(r2)
        /\ Body(r1).request_id = Body(r2).request_id

\* the requests whose log insert has worked
Inserted == { r \in Reqs : logResults[r] = <<TRUE>> }

\* C11: the log collection holds one document per request whose insert has
\* worked, each with that request's id, also when two requests carry the same
\* request id; and a request that ended with the 200 made its own agent calls,
\* all of which returned.
C11_NoDeduplicationAcrossRequests ==
    /\ Len(collection) = Cardinality(Inserted)
    /\ \A r \in Inserted :
         Cardinality({ k \in 1..Len(collection) :
                         collection[k].request_id = logCalls[r][1].request_id })
           = Cardinality({ q \in Inserted :
                             logCalls[q][1].request_id = logCalls[r][1].request_id })
    /\ \A r \in Reqs :
         (HasBody(r) /\ Status(r) = 200) =>
             /\ logCalls[r][1].request_id = Body(r).request_id
             /\ agentCalls[r] # << >>
             /\ Len(agentResults[r]) = Len(agentCalls[r])
             /\ (ClaimSummaryQuery(req[r].query) => Len(agentCalls[r]) = Len(req[r].files))

\* C11 witness: two requests that supplied the same UUID both ended with the
\* 200 and the collection holds two documents with that request id
C11_Witness ==
    \E r1, r2 \in Reqs :
        /\ r1 # r2
        /\ req[r1].request_id = <<CanonicalId>>
        /\ req[r2].request_id = <<CanonicalId>>
        /\ HasBody(r1) /\ HasBody(r2)
        /\ Len(collection) = 2
        /\ collection[1].request_id = CanonicalId
        /\ collection[2].request_id = CanonicalId

\* the request is in flight: it arrived and has no response yet
InFlight(r) == pc[r] \notin {"absent", "done"}

\* C12 (as claimed): while one request is inside text extraction, every other
\* request in flight is able to take a step.
C12_OthersStepDuringExtraction ==
    \A r, q \in Reqs :
        (r # q /\ pc[r] = "extracting" /\ InFlight(q)) => ENABLED RequestStep(q)

\* the texts the extractor may give for a file of an allowed name: an error
\* placeholder or the trimmed text for a PDF, nothing or the recognised text
\* for an image, the fixed placeholder for a Word file
DegradedOrText(filename, texto) ==
    IF EndsWith(filename, <<".","p","d","f">>)
    THEN \/ /\ Len(texto) = 3
            /\ texto[1] = "[Erro ao processar PDF: "
            /\ texto[3] = "]"
         \/ texto \in { << >>, <<"Maria", "\n", "Python">> }
    ELSE IF NameIsImage(filename)
    THEN texto \in { << >>, <<"Maria", " ", "Python">> }
    ELSE texto = <<"[Processamento de arquivos Word em desenvolvimento]">>

\* C13: processar_arquivo gives a text for every file name and library outcome,
\* and in a request whose files all have allowed names the extractor is called
\* for the files in upload order and never raises: no exception is pending unless
\* an agent call raised, every file gets a text of the expected form, and once
\* the file loop is over every file has been extracted.
C13_ExtractionNeverAborts ==
    /\ \A f \in SampleFiles, o \in LibOutcomes :
         IF NameAllowed(f.filename)
         THEN DegradedOrText(f.filename, processar_arquivo(f.filename, o))
         ELSE processar_arquivo(f.filename, o) = UnsupportedPlaceholder
    /\ \A r \in Reqs :
        (Arrived(r) /\ AllNamesAllowed(req[r].files)) =>
            /\ extractions[r] = [k \in 1..Len(extractions[r]) |-> req[r].files[k].filename]
            /\ exc[r] # << >> => AgentFailed(r)
            /\ \A k \in 1..Len(arquivos_processados[r]) :
                 /\ arquivos_processados[r][k].filename = req[r].files[k].filename
                 /\ DegradedOrText(req[r].files[k].filename, arquivos_processados[r][k].texto)
            /\ (agentCalls[r] # << >> \/ Done(r)) =>
                 /\ Len(extractions[r]) = Len(req[r].files)
                 /\ Len(arquivos_processados[r]) = Len(req[r].files)

\* C13 witness: the PDF library failed on the first file and the second file
\* was extracted all the same
C13_Witness ==
    \E r \in Reqs :
        /\ Len(arquivos_processados[r]) = 2
        /\ arquivos_processados[r][1].texto # << >>
        /\ arquivos_processados[r][1].texto[1] = "[Erro ao processar PDF: "
        /\ arquivos_processados[r][2].texto = <<"Maria", " ", "Python">>

\* the text carries a summary banner title
HasSummaryTitle(text) == \E p \in 1..Len(text) : text[p] = "CURRÍCULO  #"

\* C14: nothing is tried again: a request makes at most one agent call per
\* document (one in all in query mode), an agent call that raised is the last
\* one of its request, the response of such a request carries no summary, and
\* at most one log record is handed over and at most one insert attempted.
C14_NoRetryAfterFailure ==
    \A r \in Reqs :
        /\ Len(agentCalls[r]) <= Len(req[r].files)
        /\ Len(agentResults[r]) <= Len(agentCalls[r])
        /\ Len(agentCalls[r]) <= Len(agentResults[r]) + 1
        /\ (~ClaimSummaryQuery(req[r].query)) => Len(agentCalls[r]) <= 1
        /\ \A k \in 1..Len(agentResults[r]) :
             agentResults[r][k].raises =>
                 /\ Len(agentCalls[r]) = k
                 /\ Len(agentResults[r]) = k
                 /\ response[r] # << >> =>
                      /\ response[r][1].body = << >>
                      /\ ~HasSummaryTitle(response[r][1].detail)
        /\ Len(logCalls[r]) <= 1
        /\ Len(logResults[r]) <= Len(logCalls[r])

\* C14 witness: in summary mode with two documents the call for the first
\* raised and the request ended without a call for the second
C14_Witness ==
    \E r \in Reqs :
        /\ Done(r)
        /\ Len(req[r].files) = 2
        /\ ClaimSummaryQuery(req[r].query)
        /\ Len(agentResults[r]) = 1
        /\ agentResults[r][1].raises
        /\ Len(agentCalls[r]) = 1
        /\ Len(logResults[r]) = 1

\* the number of agent calls a request makes when none raises
CallsWhenAllReturn(r) ==
    IF ClaimSummaryQuery(req[r].query) THEN Len(req[r].files) ELSE 1

====
